---------------------------- MODULE Spec2Model ----------------------------
(***************************************************************************)
(* restinio-crud-example: the task queue (message_queue_t), the worker     *)
(* pool (thread_pool_t with my_shutdowner_t), the worker loop              *)
(* (worker_thread_func) and the request processor's entry points           *)
(* (the on_... methods of request_processor_t), as one state machine.      *)
(*                                                                         *)
(* Every queue operation runs under m_lock, so push, close and each        *)
(* locked section of pop is one atomic step.  A worker blocked in          *)
(* m_not_empty.wait is "wait"; once notified (or woken spuriously) it is   *)
(* "woken" and has to take the lock again and re-evaluate the predicate.   *)
(*                                                                         *)
(* The pool is built as run_application builds it (thread_count threads    *)
(* running worker_thread_func on the one queue, my_shutdowner_t closing    *)
(* that queue).  The clients are the most general ones the classes allow:  *)
(* producers push at any moment, the queue may be closed by a client as    *)
(* well as by the pool, and the owner of the pool calls stop() any number  *)
(* of times before the destructor runs.                                    *)
(***************************************************************************)
EXTENDS Integers, Sequences, FiniteSets, TLC

\* ------------------------------------------------------------- bounds
\* Number of push() calls made in a run.
MaxTasks == 2
\* Number of stop() calls the owner of the pool makes in a run.
MaxStopCalls == 2
\* Number of close() calls made on the queue besides the pool's shutdowner.
MaxCloseCalls == 1
\* Number of pets in one uploaded batch.
MaxBatch == 2

\* Requests the network context handles in a run of the whole service.
MaxRequests == 1

\* ------------------------------------------------- program constants
\* run_application: my_thread_pool_t worker_threads_pool{ 3, ... }
thread_count == 3

unknow_error == -1
json_dto_error == 1
sqlite_error == 2
invalid_pet_id == 3
invalid_request == 4

status_ok == 200
status_bad_request == 400
status_not_found == 404
status_internal_server_error == 500

Workers == 1..thread_count
TaskIds == 1..MaxTasks

\* The five routes of make_router, one entry point of the processor each.
Routes == {"get_all", "create", "get_one", "patch", "delete"}

\* A task_t is a closure over the request and the processor call of its
\* route.  Queue, pool and worker loop never look into it, so a pending task
\* is kept as its identity alone and the request it closes over is drawn
\* when the task runs.
NoTask == [id |-> 0]

VARIABLES
    m_queue,      \* message_queue_t::m_queue: the pending tasks, oldest first
    m_closed,     \* message_queue_t::m_closed
    pc,           \* where each worker thread is
    cur,          \* the task a worker extracted (msg in worker_thread_func)
    m_threads,    \* thread_pool_t::m_threads: the started threads, in order
    poolPc,       \* where the owner of the pool is
    via,          \* which operation is inside shutdown_then_join
    joinIdx,      \* position of the for loop of shutdown_then_join
    aborted,      \* a fault left a task: std::terminate ended the process
    nextId,       \* identity given to the next pushed task
    pushedLog,    \* history: ids whose push took effect, in lock order
    poppedLog,    \* history: ids extracted by pop, in lock order
    dropped,      \* history: ids pushed on a closed queue
    executed,     \* history: ids whose task returned to the worker loop
    invoked,      \* history: ids whose entry point was invoked and ended
    respCount,    \* history: responses sent per request
    joined,       \* history: threads joined by shutdown_then_join
    closeCalls,   \* history: close() calls made by other clients
    shutdownCalls,\* history: calls of the pool's shutdowner
    stopCalls,    \* history: number of stop() calls on the pool
    atClose,      \* history: the blocked threads and the ended tasks at the
                  \* moment the queue was closed
    trial,        \* one request put to an entry point, and what it ended in
    pets,         \* the rows of table pets
    sqlite_sequence,   \* AUTOINCREMENT: the largest rowid table pets ever had
    last_insert_rowid, \* the connection's last_insert_rowid()
    trx,          \* SQLite::Transaction: what a rollback restores
    m_lock,       \* db_layer_t::m_lock: the thread that holds it, or 0
    call,         \* the db_layer_t call a worker is in
    done,         \* history: the operation that ended last, and in what
    told,         \* history: the records as the returned writes left them
    lastCreated   \* history: the largest identity a create has returned

vars == << m_queue, m_closed, pc, cur, m_threads, poolPc, via, joinIdx,
           aborted, nextId, pushedLog, poppedLog, dropped, executed,
           invoked, respCount, joined, closeCalls, shutdownCalls,
           stopCalls, atClose, trial, pets, sqlite_sequence,
           last_insert_rowid, trx, m_lock, call, done, told,
           lastCreated >>

queueVars == << m_queue, m_closed >>
poolVars == << m_threads, poolPc, via, joinIdx, joined, stopCalls,
              shutdownCalls >>
taskHist == << executed, invoked, respCount >>
dbVars == << pets, sqlite_sequence, last_insert_rowid, trx, m_lock >>
gatewayVars == << dbVars, call, done, told, lastCreated >>

\* ------------------------------------------------------------ helpers
Ids(q) == [i \in 1..Len(q) |-> q[i].id]

IsPrefix(s, t) == Len(s) <= Len(t) /\ \A i \in 1..Len(s) : s[i] = t[i]

SeqToSet(s) == {s[i] : i \in 1..Len(s)}

Waiters(p) == {w \in Workers : p[w] = "wait"}

\* ------------------------------------------------ condition variable
\* m_not_empty.notify_one(): one of the blocked threads, if any, is woken.
NotifyOne(p) ==
    IF Waiters(p) = {} THEN {p}
    ELSE {[p EXCEPT ![w] = "woken"] : w \in Waiters(p)}

\* A close() that forgets the notification.
NotifyAllForgotten(p) == p

\* m_not_empty.notify_all(): every blocked thread is woken.
NotifyAll(p) ==
    [w \in Workers |-> IF p[w] = "wait" THEN "woken" ELSE p[w]]


\* ---------------------------------------------------- message_queue_t
\* A push that does not look at the closed flag.
PushAcceptsAlways(closed) == TRUE

\* push: if(!m_closed)
PushAccepts(closed) == ~closed

\* A push that forgets the notification.
PushNotifiesNever(q) == FALSE

\* push: const bool was_empty = m_queue.empty(); ... if(was_empty) notify_one
PushNotifies(q) == q = <<>>

\* A pop that serves the pending tasks before it looks at the closed flag.
PopOutcomeDraining(closed, q) ==
    IF q # <<>> THEN "extracted"
    ELSE IF closed THEN "queue_closed"
    ELSE "wait"

\* pop: one turn of the for(;;) loop with the lock held.
PopOutcome(closed, q) ==
    IF closed THEN "queue_closed"
    ELSE IF q # <<>> THEN "extracted"
    ELSE "wait"

\* A pop that takes the newest task.
FrontIsNewest(q) == q[Len(q)]

\* pop: receiver = std::move(m_queue.front())
Front(q) == Head(q)

\* A pop that leaves the extracted task in the queue.
PopFrontKept(q) == q

\* pop: m_queue.pop()
PopFront(q) == Tail(q)

\* pop: the predicate of m_not_empty.wait
WaitPredicate(closed, q) == closed \/ q # <<>>

\* push(what), called by the handler of a route on the network context.
Push ==
    /\ ~aborted
    /\ UNCHANGED << trial, gatewayVars >>
    /\ nextId <= MaxTasks
    /\ nextId' = nextId + 1
    /\ IF PushAccepts(m_closed)
       THEN /\ m_queue' = Append(m_queue, [id |-> nextId])
            /\ pushedLog' = Append(pushedLog, nextId)
            /\ IF PushNotifies(m_queue)
               THEN pc' \in NotifyOne(pc)
               ELSE pc' = pc
            /\ UNCHANGED dropped
       ELSE /\ dropped' = dropped \cup {nextId}
            /\ UNCHANGED << m_queue, pushedLog, pc >>
    /\ UNCHANGED << m_closed, cur, poolVars, aborted, poppedLog, taskHist,
                    closeCalls, atClose >>

\* A close() that flips the flag instead of setting it.
closeToggles ==
    /\ m_closed' = ~m_closed
    /\ pc' = NotifyAll(pc)
    /\ atClose' = IF m_closed THEN atClose
                  ELSE [closed |-> TRUE, waiters |-> Waiters(pc),
                        invoked |-> invoked]

\* close(): the effect on the queue and on the blocked threads.
close ==
    /\ m_closed' = TRUE
    /\ pc' = IF m_closed THEN pc ELSE NotifyAll(pc)
    /\ atClose' = IF m_closed THEN atClose
                  ELSE [closed |-> TRUE, waiters |-> Waiters(pc),
                        invoked |-> invoked]

\* close() called on the queue by some other client than the pool.
Close ==
    /\ ~aborted
    /\ UNCHANGED << trial, gatewayVars >>
    /\ closeCalls < MaxCloseCalls
    /\ closeCalls' = closeCalls + 1
    /\ close
    /\ UNCHANGED << m_queue, cur, poolVars, aborted, nextId, pushedLog,
                    poppedLog, dropped, taskHist >>

\* pop: what a thread holding the lock does in one turn of the loop.
PopTurn(w) ==
    LET outcome == PopOutcome(m_closed, m_queue) IN
    /\ IF outcome = "queue_closed"
       \* worker_thread_func: if(queue_closed == pop_result) break;
       THEN /\ pc' = [pc EXCEPT ![w] = "finished"]
            /\ UNCHANGED << m_queue, cur, poppedLog >>
       ELSE IF outcome = "extracted"
       THEN /\ cur' = [cur EXCEPT ![w] = Front(m_queue)]
            /\ m_queue' = PopFront(m_queue)
            /\ poppedLog' = Append(poppedLog, Front(m_queue).id)
            /\ pc' = [pc EXCEPT ![w] = "exec"]
       ELSE /\ pc' = [pc EXCEPT ![w] = "wait"]
            /\ UNCHANGED << m_queue, cur, poppedLog >>
    /\ UNCHANGED << m_closed, poolVars, aborted, nextId, pushedLog, dropped,
                    taskHist, closeCalls, atClose >>

\* pop(receiver): the thread takes m_lock and enters the loop.
PopLock(w) ==
    /\ ~aborted
    /\ UNCHANGED << trial, gatewayVars >>
    /\ pc[w] = "pop"
    /\ PopTurn(w)

\* m_not_empty.wait: a woken thread holds the lock again and evaluates the
\* predicate; it goes back to sleep or takes the next turn of the loop.
WaitWake(w) ==
    /\ ~aborted
    /\ UNCHANGED << trial, gatewayVars >>
    /\ pc[w] = "woken"
    /\ IF WaitPredicate(m_closed, m_queue)
       THEN PopTurn(w)
       ELSE /\ pc' = [pc EXCEPT ![w] = "wait"]
            /\ UNCHANGED << queueVars, cur, poolVars, aborted, nextId,
                            pushedLog, poppedLog, dropped, taskHist,
                            closeCalls, atClose >>

\* std::condition_variable::wait may return without a notification.
SpuriousWakeup(w) ==
    /\ ~aborted
    /\ UNCHANGED << trial, gatewayVars >>
    /\ pc[w] = "wait"
    /\ pc' = [pc EXCEPT ![w] = "woken"]
    /\ UNCHANGED << queueVars, cur, poolVars, aborted, nextId, pushedLog,
                    poppedLog, dropped, taskHist, closeCalls, atClose >>

\* ------------------------------------------------- request_processor_t
\* What a piece of request handling ends in: a returned value or a thrown
\* exception; a request_processing_failure_t carries a status and a code.
Returns == [kind |-> "value", status |-> 0, code |-> 0]

Throws(what) == [kind |-> what, status |-> 0, code |-> 0]

request_processing_failure_t(response_status, error_code) ==
    [kind |-> "request_processing_failure_t",
     status |-> response_status, code |-> error_code]

\* What an entry point ends in: the responses it sent, and whether an
\* exception left it.
Responds(response_status, error_code) ==
    [escaped |-> FALSE,
     responses |-> << [status |-> response_status, code |-> error_code] >>]

Escapes == [escaped |-> TRUE, responses |-> << >>]

\* The facts about a request and its handling that the code branches on:
\*   ct      the Content-Type field of the request
\*   upload  whether the multipart body holds a non-empty part named "file"
\*   body    whether json_dto::from_json accepts the payload
\*   db      what the db_layer_t operation does: it succeeds, finds no row
\*           with the id, or throws SQLite::Exception
\*   unexpected         the business logic throws something else
\*   ser_result_fault   json_dto::to_json of the result throws
\*   ser_failure_fault  json_dto::to_json of a failure description throws
ContentTypes ==
    {"absent", "unparsable", "application/json", "multipart/form-data",
     "text/plain"}

Envs ==
    [ct : ContentTypes, upload : {"file", "none"},
     body : {"valid", "malformed"}, db : {"ok", "miss", "fault"},
     unexpected : BOOLEAN, ser_result_fault : BOOLEAN,
     ser_failure_fault : BOOLEAN]

\* wrap_business_logic_action: json_dto::ex_t and SQLite::Exception become
\* a request_processing_failure_t, everything else passes.
wrap_business_logic_action(functor) ==
    IF functor.kind = "json_dto::ex_t"
    THEN request_processing_failure_t(status_bad_request, json_dto_error)
    ELSE IF functor.kind = "SQLite::Exception"
    THEN request_processing_failure_t(status_internal_server_error,
                                      sqlite_error)
    ELSE functor

\* wrap_request_processing: the serialization of the result is inside the
\* try block, the serialization of a failure description is inside the
\* catch blocks, the response is created after them.
wrap_request_processing(functor, env) ==
    LET tried == IF functor.kind = "value" /\ env.ser_result_fault
                 THEN Throws("other")
                 ELSE functor
    IN  IF tried.kind = "value" THEN Responds(status_ok, 0)
        ELSE IF env.ser_failure_fault THEN Escapes
        ELSE IF tried.kind = "request_processing_failure_t"
        THEN Responds(tried.status, tried.code)
        ELSE Responds(status_internal_server_error, unknow_error)

\* detect_create_new_mode
detect_create_new_mode(ct) ==
    IF ct = "absent" \/ ct = "unparsable"
    THEN [ok |-> FALSE, mode |-> "none",
          error |-> request_processing_failure_t(status_bad_request,
                                                 invalid_request)]
    ELSE IF ct = "application/json"
    THEN [ok |-> TRUE, mode |-> "single", error |-> Returns]
    ELSE IF ct = "multipart/form-data"
    THEN [ok |-> TRUE, mode |-> "batch", error |-> Returns]
    ELSE [ok |-> FALSE, mode |-> "none",
          error |-> request_processing_failure_t(status_bad_request,
                                                 invalid_request)]

\* request_processor_t::create_new_pet
create_new_pet(env) ==
    wrap_business_logic_action(
        IF env.unexpected THEN Throws("other")
        ELSE IF env.body = "malformed" THEN Throws("json_dto::ex_t")
        ELSE IF env.db = "fault" THEN Throws("SQLite::Exception")
        ELSE Returns)

\* request_processor_t::batch_create_new_pets
batch_create_new_pets(env) ==
    wrap_business_logic_action(
        IF env.unexpected THEN Throws("other")
        ELSE IF env.upload = "none"
        THEN request_processing_failure_t(status_bad_request, invalid_request)
        ELSE IF env.body = "malformed" THEN Throws("json_dto::ex_t")
        ELSE IF env.db = "fault" THEN Throws("SQLite::Exception")
        ELSE Returns)

\* request_processor_t::get_all_pets
get_all_pets(env) ==
    wrap_business_logic_action(
        IF env.unexpected THEN Throws("other")
        ELSE IF env.db = "fault" THEN Throws("SQLite::Exception")
        ELSE Returns)

\* request_processor_t::get_specific_pet
get_specific_pet(env) ==
    wrap_business_logic_action(
        IF env.unexpected THEN Throws("other")
        ELSE IF env.db = "fault" THEN Throws("SQLite::Exception")
        ELSE IF env.db = "miss"
        THEN request_processing_failure_t(status_not_found, invalid_pet_id)
        ELSE Returns)

\* request_processor_t::patch_specific_pet
patch_specific_pet(env) ==
    wrap_business_logic_action(
        IF env.unexpected THEN Throws("other")
        ELSE IF env.body = "malformed" THEN Throws("json_dto::ex_t")
        ELSE IF env.db = "fault" THEN Throws("SQLite::Exception")
        ELSE IF env.db = "miss"
        THEN request_processing_failure_t(status_not_found, invalid_pet_id)
        ELSE Returns)

\* request_processor_t::delete_specific_pet
delete_specific_pet(env) ==
    wrap_business_logic_action(
        IF env.unexpected THEN Throws("other")
        ELSE IF env.db = "fault" THEN Throws("SQLite::Exception")
        ELSE IF env.db = "miss"
        THEN request_processing_failure_t(status_not_found, invalid_pet_id)
        ELSE Returns)

\* request_processor_t::on_create_new_pet: the content negotiation runs
\* before, and its failure is answered outside of, wrap_request_processing.
on_create_new_pet(env) ==
    LET mode == detect_create_new_mode(env.ct) IN
    IF mode.ok
    THEN IF mode.mode = "single"
         THEN wrap_request_processing(create_new_pet(env), env)
         ELSE wrap_request_processing(batch_create_new_pets(env), env)
    ELSE IF env.ser_failure_fault THEN Escapes
    ELSE Responds(mode.error.status, mode.error.code)

on_get_all_pets(env) == wrap_request_processing(get_all_pets(env), env)

on_get_specific_pet(env) ==
    wrap_request_processing(get_specific_pet(env), env)

on_patch_specific_pet(env) ==
    wrap_request_processing(patch_specific_pet(env), env)

on_delete_specific_pet(env) ==
    wrap_request_processing(delete_specific_pet(env), env)

\* make_router: the task of each route calls one entry point.
TaskBody(route, env) ==
    CASE route = "get_all" -> on_get_all_pets(env)
      [] route = "create"  -> on_create_new_pet(env)
      [] route = "get_one" -> on_get_specific_pet(env)
      [] route = "patch"   -> on_patch_specific_pet(env)
      [] route = "delete"  -> on_delete_specific_pet(env)

\* Every way a task can end, over the routes and the facts of a request.
TaskEndings == {TaskBody(route, env) : route \in Routes, env \in Envs}

\* -------------------------------------------------- worker_thread_func
\* msg.m_task(): the worker runs the extracted task.  The loop has no
\* try block: an exception that leaves the task leaves the thread
\* function, and std::terminate ends the process.
TaskRun(w) ==
    /\ ~aborted
    /\ UNCHANGED << trial, gatewayVars >>
    /\ pc[w] = "exec"
    /\ \E r \in TaskEndings :
         LET id == cur[w].id
         IN  /\ invoked' = invoked \cup {id}
             /\ respCount' = [respCount EXCEPT ![id] = @ + Len(r.responses)]
             /\ IF r.escaped
                THEN /\ aborted' = TRUE
                     /\ pc' = [pc EXCEPT ![w] = "crashed"]
                     /\ UNCHANGED << cur, executed >>
                ELSE /\ pc' = [pc EXCEPT ![w] = "pop"]
                     /\ cur' = [cur EXCEPT ![w] = NoTask]
                     /\ executed' = executed \cup {id}
                     /\ UNCHANGED aborted
    /\ UNCHANGED << queueVars, poolVars, nextId, pushedLog, poppedLog,
                    dropped, closeCalls, atClose >>

\* ------------------------------------------------------ thread_pool_t
\* A shutdown_then_join that does not look at m_threads.
ShutdownAlways(threads) == TRUE

\* shutdown_then_join: if(!m_threads.empty())
ShutdownNeeded(threads) == threads # << >>

\* A join that does not wait for the thread.
JoinReturnsAtOnce(w) == TRUE

\* t.join() returns once the thread function of t has returned.
JoinReturns(w) == pc[w] = "finished"

\* A shutdown_then_join that joins without giving the signal.
ShutdownerSkipped ==
    UNCHANGED << m_closed, pc, shutdownCalls, atClose >>

\* my_shutdowner_t::operator(): m_queue.close()
m_shutdowner ==
    /\ shutdownCalls' = shutdownCalls + 1
    /\ close

\* Where the owner of the pool is once shutdown_then_join has returned:
\* the constructor rethrows, stop() returns, the destructor ends.
After(who) ==
    CASE who = "ctor" -> "failed"
      [] who = "stop" -> "ready"
      [] who = "dtor" -> "destroyed"

\* shutdown_then_join, up to its first join.
shutdown_then_join(who) ==
    IF ShutdownNeeded(m_threads)
    THEN /\ m_shutdowner
         /\ IF m_threads = << >>
            THEN /\ poolPc' = After(who)
                 /\ UNCHANGED << via, joinIdx >>
            ELSE /\ poolPc' = "joining"
                 /\ via' = who
                 /\ joinIdx' = 1
    ELSE /\ poolPc' = After(who)
         /\ UNCHANGED << m_closed, pc, shutdownCalls, atClose, via,
                         joinIdx >>

\* The constructor's loop: m_threads.emplace_back(args...) starts a thread.
CtorStartThread ==
    /\ ~aborted
    /\ UNCHANGED << trial, gatewayVars >>
    /\ poolPc = "ctor"
    /\ Len(m_threads) < thread_count
    /\ LET t == Len(m_threads) + 1 IN
         /\ m_threads' = Append(m_threads, t)
         /\ pc' = [pc EXCEPT ![t] = "pop"]
         /\ poolPc' = IF t = thread_count THEN "ready" ELSE "ctor"
    /\ UNCHANGED << queueVars, cur, via, joinIdx, aborted, nextId, pushedLog,
                    poppedLog, dropped, taskHist, joined, closeCalls,
                    shutdownCalls, stopCalls, atClose >>

\* The constructor's catch(...): starting a thread threw.
CtorThreadFails ==
    /\ ~aborted
    /\ UNCHANGED << trial, gatewayVars >>
    /\ poolPc = "ctor"
    /\ Len(m_threads) < thread_count
    /\ shutdown_then_join("ctor")
    /\ UNCHANGED << m_queue, cur, m_threads, aborted, nextId, pushedLog,
                    poppedLog, dropped, taskHist, joined, stopCalls,
                    closeCalls >>

\* stop()
Stop ==
    /\ ~aborted
    /\ UNCHANGED << trial, gatewayVars >>
    /\ poolPc = "ready"
    /\ stopCalls < MaxStopCalls
    /\ stopCalls' = stopCalls + 1
    /\ shutdown_then_join("stop")
    /\ UNCHANGED << m_queue, cur, m_threads, aborted, nextId, pushedLog,
                    poppedLog, dropped, taskHist, joined, closeCalls >>

\* ~thread_pool_t()
Destroy ==
    /\ ~aborted
    /\ UNCHANGED << trial, gatewayVars >>
    /\ poolPc = "ready"
    /\ shutdown_then_join("dtor")
    /\ UNCHANGED << m_queue, cur, m_threads, aborted, nextId, pushedLog,
                    poppedLog, dropped, taskHist, joined, stopCalls,
                    closeCalls >>

\* shutdown_then_join: one turn of the for loop; after the last one
\* m_threads.clear() and the return.
Join ==
    /\ ~aborted
    /\ UNCHANGED << trial, gatewayVars >>
    /\ poolPc = "joining"
    /\ joinIdx <= Len(m_threads)
    /\ JoinReturns(m_threads[joinIdx])
    /\ joined' = joined \cup {m_threads[joinIdx]}
    /\ IF joinIdx = Len(m_threads)
       THEN /\ m_threads' = << >>
            /\ poolPc' = After(via)
            /\ via' = "none"
            /\ joinIdx' = 0
       ELSE /\ joinIdx' = joinIdx + 1
            /\ UNCHANGED << m_threads, poolPc, via >>
    /\ UNCHANGED << queueVars, pc, cur, aborted, nextId, pushedLog,
                    poppedLog, dropped, taskHist, closeCalls, shutdownCalls,
                    stopCalls, atClose >>

\* ------------------------------------------------------ specification
\* run_application: the queue is empty and open, the constructor of the
\* pool is about to start its threads.
PoolInit ==
    /\ m_queue = << >>
    /\ m_closed = FALSE
    /\ pc = [w \in Workers |-> "not_started"]
    /\ cur = [w \in Workers |-> NoTask]
    /\ m_threads = << >>
    /\ poolPc = "ctor"
    /\ via = "none"
    /\ joinIdx = 0
    /\ aborted = FALSE
    /\ nextId = 1
    /\ pushedLog = << >>
    /\ poppedLog = << >>
    /\ dropped = {}
    /\ executed = {}
    /\ invoked = {}
    /\ respCount = [t \in TaskIds |-> 0]
    /\ joined = {}
    /\ closeCalls = 0
    /\ shutdownCalls = 0
    /\ stopCalls = 0
    /\ atClose = [closed |-> FALSE, waiters |-> {}, invoked |-> {}]

\* No request is being put to an entry point.
NoTrial == [route |-> "none"]

\* A worker that is in no db_layer_t call.
NoCall == [op |-> "none", id |-> 0, pets |-> << >>, k |-> 0, ids |-> << >>,
           got |-> {}, changes |-> 0]

\* No SQLite::Transaction is open.
NoTrx == [open |-> FALSE, pets |-> {}, sqlite_sequence |-> 0]

\* No db_layer_t operation has ended yet.
NoDone == [op |-> "none", out |-> "none"]

\* db_layer_t on a new database file: create table if not exists pets;
\* nobody holds m_lock and no worker is in a call.
GatewayIdle ==
    /\ pets = {}
    /\ sqlite_sequence = 0
    /\ last_insert_rowid = 0
    /\ trx = NoTrx
    /\ m_lock = 0
    /\ call = [w \in Workers |-> NoCall]
    /\ done = NoDone
    /\ told = {}
    /\ lastCreated = 0

Init ==
    /\ PoolInit
    /\ trial = NoTrial
    /\ GatewayIdle

Next ==
    \/ Push
    \/ Close
    \/ \E w \in Workers : PopLock(w)
    \/ \E w \in Workers : WaitWake(w)
    \/ \E w \in Workers : SpuriousWakeup(w)
    \/ \E w \in Workers : TaskRun(w)
    \/ CtorStartThread
    \/ CtorThreadFails
    \/ Stop
    \/ Destroy
    \/ Join

Spec == Init /\ [][Next]_vars

\* The threads run: a worker that can take a step takes it, a started task
\* ends, the constructor and the joining loop go on.  Nothing obliges a
\* client to push, to close or to stop, and no wakeup is owed without a
\* notification.
Fairness ==
    /\ \A w \in Workers : WF_vars(PopLock(w))
    /\ \A w \in Workers : WF_vars(WaitWake(w))
    /\ \A w \in Workers : WF_vars(TaskRun(w))
    /\ WF_vars(CtorStartThread \/ CtorThreadFails)
    /\ WF_vars(Join)

FairSpec == Init /\ [][Next]_vars /\ Fairness

\* ------------------------------------- the entry points, one request
\* A request is put to the entry point of its route; the facts of the
\* request and of its handling are drawn from Envs.
ProcInit ==
    /\ PoolInit
    /\ GatewayIdle
    /\ trial \in [route : Routes, env : Envs, ended : {FALSE},
                   result : {Escapes}]

\* The task of the route runs: one call of the entry point.
EntryPoint ==
    /\ ~trial.ended
    /\ trial' = [trial EXCEPT !.ended = TRUE,
                              !.result = TaskBody(trial.route, trial.env)]
    /\ UNCHANGED << queueVars, pc, cur, poolVars, aborted, nextId,
                    pushedLog, poppedLog, dropped, taskHist, closeCalls,
                    atClose, gatewayVars >>

ProcNext == EntryPoint

ProcSpec == ProcInit /\ [][ProcNext]_vars

\* ------------------------------------------------------------ db_layer_t
\* model::pet_without_id_t payloads; the four fields of one payload differ,
\* and so do the payloads.
PetA == [m_name |-> "a-name", m_type |-> "a-type", m_owner |-> "a-owner",
         m_picture |-> "a-picture"]

PetB == [m_name |-> "b-name", m_type |-> "b-type", m_owner |-> "b-owner",
         m_picture |-> "b-picture"]

Payloads == {PetA, PetB}

\* model::bunch_of_pets_without_id_t: the uploaded batches, of every
\* length and with neighbours that differ.
Bunch(n) == [i \in 1..n |-> IF i % 2 = 1 THEN PetA ELSE PetB]

Batches == {Bunch(n) : n \in 0..MaxBatch}

\* insert into pets(name, type, owner, picture)
\*     values(:name, :type, :owner, :picture)
\* with the bindings of create_new_pet: the row the statement inserts.
InsertedRow(rowid, pet) ==
    [id |-> rowid, name |-> pet.m_name, type |-> pet.m_type,
     owner |-> pet.m_owner, picture |-> pet.m_picture]

\* A column mapping that reads m_owner from the column of type.
ColumnsSwapped(row) ==
    [m_id |-> row.id,
     m_data |-> [m_name |-> row.name, m_type |-> row.type,
                 m_owner |-> row.type, m_picture |-> row.picture]]

\* select id, name, type, owner, picture from pets, read as get_pet and
\* get_all_pets read it: column 0 is m_id, columns 1 to 4 are m_data.
pet_with_id_t(row) ==
    [m_id |-> row.id,
     m_data |-> [m_name |-> row.name, m_type |-> row.type,
                 m_owner |-> row.owner, m_picture |-> row.picture]]

MaxOf(S) == IF S = {} THEN 0 ELSE CHOOSE x \in S : \A y \in S : y <= x

\* An AUTOINCREMENT that forgets the deleted rows: one more than the
\* largest rowid in the table.
RowidReused(rows, seq) == MaxOf({r.id : r \in rows}) + 1

\* id integer primary key autoincrement: one more than the largest rowid
\* the table ever had (kept in sqlite_sequence).
NextRowid(rows, seq) == MaxOf({r.id : r \in rows} \cup {seq}) + 1

\* where id = :id
RowsWithId(rows, id) == {r \in rows : r.id = id}

\* An update without its where clause.
UpdatedEveryRow(rows, id, pet) == {InsertedRow(r.id, pet) : r \in rows}

\* An update whose statement changes no field.
UpdateLost(rows, id, pet) == rows

\* update pets set name = :name, ... where id = :id, with the bindings of
\* update_pet.
UpdatedRows(rows, id, pet) ==
    {IF r.id = id THEN InsertedRow(r.id, pet) ELSE r : r \in rows}

\* A delete without its where clause.
DeletedAll(rows, id) == {}

\* delete from pets where id = :id
DeletedRows(rows, id) == {r \in rows : r.id # id}

\* The db_layer_t operation the business logic of a route calls, "none"
\* when a fault comes before the call: the content negotiation of
\* on_create_new_pet, the part named "file" of batch_create_new_pets, the
\* from_json of create_new_pet, batch_create_new_pets and
\* patch_specific_pet (an argument of the call).
GatewayCall(route, env) ==
    CASE route = "get_all" ->
            IF env.unexpected THEN "none" ELSE "get_all_pets"
      [] route = "create" ->
            LET mode == detect_create_new_mode(env.ct) IN
            IF ~mode.ok \/ env.unexpected THEN "none"
            ELSE IF mode.mode = "single"
            THEN IF env.body = "malformed" THEN "none"
                 ELSE "create_new_pet"
            ELSE IF env.upload = "none" \/ env.body = "malformed"
                 THEN "none"
                 ELSE "create_bunch_of_pets"
      [] route = "get_one" ->
            IF env.unexpected THEN "none" ELSE "get_pet"
      [] route = "patch" ->
            IF env.unexpected \/ env.body = "malformed" THEN "none"
            ELSE "update_pet"
      [] route = "delete" ->
            IF env.unexpected THEN "none" ELSE "delete_pet"

\* The route whose business logic calls an operation, and the Content-Type
\* its request had.
RouteOf(op) ==
    CASE op = "get_all_pets" -> "get_all"
      [] op = "create_new_pet" -> "create"
      [] op = "create_bunch_of_pets" -> "create"
      [] op = "get_pet" -> "get_one"
      [] op = "update_pet" -> "patch"
      [] op = "delete_pet" -> "delete"

\* The facts of a request whose business logic calls op, with what the
\* call ended in and what the serializations do.  (The Content-Type and
\* the payload of a request whose route reads neither are of no account.)
FactsAt(op, out, ser_result_fault, ser_failure_fault) ==
    [ct |-> IF op = "create_bunch_of_pets" THEN "multipart/form-data"
            ELSE "application/json",
     upload |-> "file", body |-> "valid", db |-> out, unexpected |-> FALSE,
     ser_result_fault |-> ser_result_fault,
     ser_failure_fault |-> ser_failure_fault]

\* The identities a client asks for: every identity the table ever had,
\* and one it never had.
AskedIds == 1..(sqlite_sequence + 1)

\* The requests whose business logic calls op: the identity in the path
\* and the decoded payload.
Arguments(op) ==
    CASE op = "get_all_pets" -> {[id |-> 0, pets |-> << >>]}
      [] op = "create_new_pet" -> {[id |-> 0, pets |-> << p >>] : p \in Payloads}
      [] op = "create_bunch_of_pets" -> {[id |-> 0, pets |-> b] : b \in Batches}
      [] op = "get_pet" -> {[id |-> i, pets |-> << >>] : i \in AskedIds}
      [] op = "update_pet" ->
            {[id |-> i, pets |-> << p >>] : i \in AskedIds, p \in Payloads}
      [] op = "delete_pet" -> {[id |-> i, pets |-> << >>] : i \in AskedIds}

\* The statements an operation executes on table pets.
Statements(c) ==
    IF c.op = "create_bunch_of_pets" THEN Len(c.pets) ELSE 1

\* The entry point of a task has ended in r: the responses are sent, the
\* worker goes back to pop, or the exception leaves the thread function.
EndTask(w, r) ==
    LET id == cur[w].id IN
    /\ invoked' = invoked \cup {id}
    /\ respCount' = [respCount EXCEPT ![id] = @ + Len(r.responses)]
    /\ IF r.escaped
       THEN /\ aborted' = TRUE
            /\ pc' = [pc EXCEPT ![w] = "crashed"]
            /\ UNCHANGED << cur, executed >>
       ELSE /\ pc' = [pc EXCEPT ![w] = "pop"]
            /\ cur' = [cur EXCEPT ![w] = NoTask]
            /\ executed' = executed \cup {id}
            /\ UNCHANGED aborted

\* The facts of a request as it arrives: what the operation will do is
\* not among them.
RequestFacts == {facts \in Envs : facts.db = "ok"}

\* What the entry points end in when a fault comes before the call of
\* the operation.
EndingsBeforeCall ==
    {TaskBody(q[1], q[2]) :
        q \in {p \in Routes \X RequestFacts :
                  GatewayCall(p[1], p[2]) = "none"}}

\* The operations the business logic of the routes calls.
CallsReached ==
    {GatewayCall(q[1], q[2]) : q \in Routes \X RequestFacts} \ {"none"}

\* msg.m_task(): the task calls the entry point of its route, which runs
\* up to the db_layer_t call of its business logic, or to its end when a
\* fault comes before the call.
TaskStart(w) ==
    /\ ~aborted
    /\ pc[w] = "exec"
    /\ \/ /\ \E r \in EndingsBeforeCall : EndTask(w, r)
          /\ UNCHANGED call
       \/ /\ \E op \in CallsReached : \E a \in Arguments(op) :
                call' = [call EXCEPT ![w] =
                           [NoCall EXCEPT !.op = op, !.id = a.id,
                                          !.pets = a.pets]]
          /\ pc' = [pc EXCEPT ![w] = "db_call"]
          /\ UNCHANGED << cur, aborted, taskHist >>
    /\ UNCHANGED << queueVars, poolVars, nextId, pushedLog, poppedLog,
                    dropped, closeCalls, atClose, trial, dbVars, done, told,
                    lastCreated >>

\* A lock_guard that does not wait.
LockIgnored(holder) == TRUE

\* std::lock_guard<std::mutex> lock{m_lock}: the constructor returns once
\* no thread holds the mutex.
LockFree(holder) == holder = 0

\* The first lines of an operation: the lock is taken, and
\* create_bunch_of_pets begins its transaction.
DbLock(w) ==
    /\ ~aborted
    /\ pc[w] = "db_call"
    /\ LockFree(m_lock)
    /\ m_lock' = w
    /\ pc' = [pc EXCEPT ![w] = "db_in"]
    /\ trx' = IF call[w].op = "create_bunch_of_pets"
              THEN [open |-> TRUE, pets |-> pets,
                    sqlite_sequence |-> sqlite_sequence]
              ELSE trx
    /\ UNCHANGED << queueVars, cur, poolVars, aborted, nextId, pushedLog,
                    poppedLog, dropped, taskHist, closeCalls, atClose, trial,
                    pets, sqlite_sequence, last_insert_rowid, call, done,
                    told, lastCreated >>

\* m_create_new_stmt.exec() with the bindings of pet.
ExecInsert(pet) ==
    LET rowid == NextRowid(pets, sqlite_sequence) IN
    /\ pets' = pets \cup {InsertedRow(rowid, pet)}
    /\ sqlite_sequence' = rowid
    /\ last_insert_rowid' = rowid

\* reset, bind and execute of one statement, and the reading of its
\* result, by the thread inside the operation.
DbStep(w) ==
    LET c == call[w] IN
    /\ ~aborted
    /\ pc[w] = "db_in"
    /\ c.k < Statements(c)
    /\ CASE c.op = "create_new_pet" ->
              /\ ExecInsert(c.pets[1])
              /\ call' = [call EXCEPT ![w].k = 1]
         [] c.op = "create_bunch_of_pets" ->
              /\ ExecInsert(c.pets[c.k + 1])
              /\ call' = [call EXCEPT
                            ![w].k = c.k + 1,
                            ![w].ids = Append(c.ids, last_insert_rowid')]
         [] c.op = "get_all_pets" ->
              /\ call' = [call EXCEPT
                            ![w].k = 1,
                            ![w].got = {pet_with_id_t(r) : r \in pets}]
              /\ UNCHANGED << pets, sqlite_sequence, last_insert_rowid >>
         [] c.op = "get_pet" ->
              /\ call' = [call EXCEPT
                            ![w].k = 1,
                            ![w].got = {pet_with_id_t(r) :
                                          r \in RowsWithId(pets, c.id)}]
              /\ UNCHANGED << pets, sqlite_sequence, last_insert_rowid >>
         [] c.op = "update_pet" ->
              /\ pets' = UpdatedRows(pets, c.id, c.pets[1])
              /\ call' = [call EXCEPT
                            ![w].k = 1,
                            ![w].changes =
                                Cardinality(RowsWithId(pets, c.id))]
              /\ UNCHANGED << sqlite_sequence, last_insert_rowid >>
         [] c.op = "delete_pet" ->
              /\ pets' = DeletedRows(pets, c.id)
              /\ call' = [call EXCEPT
                            ![w].k = 1,
                            ![w].changes =
                                Cardinality(RowsWithId(pets, c.id))]
              /\ UNCHANGED << sqlite_sequence, last_insert_rowid >>
    /\ UNCHANGED << queueVars, pc, cur, poolVars, aborted, nextId,
                    pushedLog, poppedLog, dropped, taskHist, closeCalls,
                    atClose, trial, trx, m_lock, done, told, lastCreated >>

\* An update that reports "updated" whatever it changed.
UpdatedAlways(changes) == "updated"

\* update_pet: 1 == m_update_pet_stmt.exec() ? updated : not_found
update_result_t(changes) == IF changes = 1 THEN "updated" ELSE "not_found"

\* delete_pet: 1 == m_delete_pet_stmt.exec() ? deleted : not_found
delete_result_t(changes) == IF changes = 1 THEN "deleted" ELSE "not_found"

\* What the business logic makes of the value an operation returns: the
\* empty optional of get_pet and the not_found of update_pet and
\* delete_pet are the unknown identity.
Outcome(c) ==
    CASE c.op = "get_pet" -> IF c.got = {} THEN "miss" ELSE "ok"
      [] c.op = "update_pet" ->
            IF update_result_t(c.changes) = "updated" THEN "ok" ELSE "miss"
      [] c.op = "delete_pet" ->
            IF delete_result_t(c.changes) = "deleted" THEN "ok" ELSE "miss"
      [] OTHER -> "ok"

\* The identities a create returns: create_new_pet reads
\* last_insert_rowid() when it returns, create_bunch_of_pets has read it
\* after each insert.
ReturnedIds(c) ==
    CASE c.op = "create_new_pet" -> << last_insert_rowid >>
      [] c.op = "create_bunch_of_pets" -> c.ids
      [] OTHER -> << >>

\* The records as a returned write leaves them, by what it was given and
\* what it returned.
ToldAfter(c) ==
    LET ids == ReturnedIds(c)
        one == [m_id |-> c.id, m_data |-> c.pets[1]]
    IN  CASE c.op \in {"create_new_pet", "create_bunch_of_pets"} ->
               told \cup {[m_id |-> ids[i], m_data |-> c.pets[i]] :
                            i \in 1..Len(ids)}
          [] c.op = "update_pet" /\ Outcome(c) = "ok" ->
               {t \in told : t.m_id # c.id} \cup {one}
          [] c.op = "delete_pet" /\ Outcome(c) = "ok" ->
               {t \in told : t.m_id # c.id}
          [] OTHER -> told

\* The operation returns: create_bunch_of_pets commits, the lock is
\* released, the business logic and wrap_request_processing make the
\* response of the value.
DbReturn(w) ==
    LET c == call[w]
        ids == ReturnedIds(c)
    IN
    /\ ~aborted
    /\ pc[w] = "db_in"
    /\ c.k = Statements(c)
    /\ m_lock' = 0
    /\ trx' = IF c.op = "create_bunch_of_pets" THEN NoTrx ELSE trx
    /\ call' = [call EXCEPT ![w] = NoCall]
    /\ told' = ToldAfter(c)
    /\ lastCreated' = IF ids = << >> THEN lastCreated ELSE ids[Len(ids)]
    /\ \E ser_result_fault, ser_failure_fault \in BOOLEAN :
         LET facts == FactsAt(c.op, Outcome(c), ser_result_fault,
                              ser_failure_fault)
         IN  EndTask(w, TaskBody(RouteOf(c.op), facts))
    /\ done' = [op |-> c.op, out |-> Outcome(c)]
    /\ UNCHANGED << queueVars, poolVars, nextId, pushedLog, poppedLog,
                    dropped, closeCalls, atClose, trial, pets,
                    sqlite_sequence, last_insert_rowid >>

\* A Transaction whose destructor does not roll back.
RollbackForgotten(rows, t) == rows

\* SQLite::Transaction::~Transaction without a commit: rollback.
Rollback(rows, t) == IF t.open THEN t.pets ELSE rows

\* A statement, or the commit, throws SQLite::Exception: the statement has
\* changed nothing, the transaction of create_bunch_of_pets is rolled
\* back, the lock is released and wrap_business_logic_action catches.
DbFault(w) ==
    LET c == call[w]
        bunch == c.op = "create_bunch_of_pets"
    IN
    /\ ~aborted
    /\ pc[w] = "db_in"
    /\ c.k < Statements(c) \/ bunch
    /\ m_lock' = 0
    /\ pets' = IF bunch THEN Rollback(pets, trx) ELSE pets
    /\ sqlite_sequence' = IF bunch /\ trx.open THEN trx.sqlite_sequence
                          ELSE sqlite_sequence
    /\ trx' = IF bunch THEN NoTrx ELSE trx
    /\ call' = [call EXCEPT ![w] = NoCall]
    /\ \E ser_failure_fault \in BOOLEAN :
         LET facts == FactsAt(c.op, "fault", FALSE, ser_failure_fault)
         IN  EndTask(w, TaskBody(RouteOf(c.op), facts))
    /\ done' = [op |-> c.op, out |-> "fault"]
    /\ UNCHANGED << queueVars, poolVars, nextId, pushedLog, poppedLog,
                    dropped, closeCalls, atClose, trial, last_insert_rowid,
                    told, lastCreated >>

\* --------------------------------------- the service, requests served
\* pets.db3 as earlier runs of the service can have left it: never used;
\* or two pets created and the first one deleted.
StartStores ==
    {[pets |-> {}, sqlite_sequence |-> 0],
     [pets |-> {InsertedRow(2, PetB)}, sqlite_sequence |-> 2]}

\* The state the parts of the program outside the queue are in once
\* run_application has built them: the database is open (new connection,
\* no transaction), the pool has started its threads, no task has run.
ServiceBuilt ==
    /\ m_closed = FALSE
    /\ m_threads = [i \in 1..thread_count |-> i]
    /\ poolPc = "ready"
    /\ via = "none"
    /\ joinIdx = 0
    /\ aborted = FALSE
    /\ dropped = {}
    /\ executed = {}
    /\ invoked = {}
    /\ respCount = [t \in TaskIds |-> 0]
    /\ joined = {}
    /\ closeCalls = 0
    /\ shutdownCalls = 0
    /\ stopCalls = 0
    /\ atClose = [closed |-> FALSE, waiters |-> {}, invoked |-> {}]
    /\ trial = NoTrial
    /\ \E db \in StartStores :
         /\ pets = db.pets
         /\ sqlite_sequence = db.sqlite_sequence
         /\ told = {pet_with_id_t(r) : r \in db.pets}
         /\ lastCreated = db.sqlite_sequence
    /\ last_insert_rowid = 0
    /\ trx = NoTrx
    /\ m_lock = 0
    /\ call = [w \in Workers |-> NoCall]
    /\ done = NoDone

\* The network context has pushed the tasks of the requests of the run,
\* and each was popped by a worker of its own: the workers are alike, so
\* the first takes the first task, the second the second; a worker left
\* without a task is calling pop.
StoreInit ==
    /\ ServiceBuilt
    /\ m_queue = << >>
    /\ pushedLog = [i \in 1..MaxTasks |-> i]
    /\ poppedLog = [i \in 1..MaxTasks |-> i]
    /\ nextId = MaxTasks + 1
    /\ pc = [w \in Workers |-> IF w <= MaxTasks THEN "exec" ELSE "pop"]
    /\ cur = [w \in Workers |-> IF w <= MaxTasks THEN [id |-> w]
                                 ELSE NoTask]

\* The workers run their tasks, each at its own pace.
StoreNext ==
    \/ \E w \in Workers : TaskStart(w)
    \/ \E w \in Workers : DbLock(w)
    \/ \E w \in Workers : DbStep(w)
    \/ \E w \in Workers : DbFault(w)
    \/ \E w \in Workers : DbReturn(w)

StoreSpec == StoreInit /\ [][StoreNext]_vars

\* ------------------------------------------------------------ service
\* run_application: the router on the network context, the queue, the pool
\* and the store together.

\* The routes whose path carries :id(\d+).
IdRoutes == {"get_one", "patch", "delete"}

\* std::numeric_limits<pet_id_t>::max() as the digits of its decimal text.
max_representation == << 2, 1, 4, 7, 4, 8, 3, 6, 4, 7 >>

\* The texts of the :id parameter of the requests of the run, as the
\* digits the pattern \d+ lets through: a small identity, the greatest
\* pet_id_t and the number after it.
IdTexts == { << 2 >>, max_representation,
             << 2, 1, 4, 7, 4, 8, 3, 6, 4, 8 >> }

\* memcmp of two texts of the same length gives more than zero.
RECURSIVE TextGreater(_, _)
TextGreater(a, b) ==
    IF a = << >> THEN FALSE
    ELSE IF Head(a) # Head(b) THEN Head(a) > Head(b)
    ELSE TextGreater(Tail(a), Tail(b))

\* restinio::cast_to<pet_id_t>(params["id"]) returns the number of the
\* text when a pet_id_t can hold it, and throws otherwise.
cast_to_throws(text) ==
    \/ Len(text) > Len(max_representation)
    \/ /\ Len(text) = Len(max_representation)
       /\ TextGreater(text, max_representation)

\* The handler of a route, run by the router on the network context: the
\* routes with an id convert it first, then the handler pushes the task of
\* the request and returns request_accepted.  An exception of the
\* conversion leaves the handler before the push.
router_handler(route, text) ==
    IF route \in IdRoutes /\ cast_to_throws(text)
    THEN /\ ~aborted
         /\ nextId <= MaxTasks
         /\ nextId' = nextId + 1
         /\ UNCHANGED << queueVars, pc, cur, poolVars, aborted, pushedLog,
                         poppedLog, dropped, taskHist, closeCalls, atClose,
                         trial, gatewayVars >>
    ELSE Push

\* The network context handles the next request of the run.
NetworkContext ==
    /\ nextId <= MaxRequests
    /\ \E route \in Routes, text \in IdTexts : router_handler(route, text)

\* run_application before restinio::run serves the first request: the
\* store is open, the queue is empty and the three workers call pop.
ServiceInit ==
    /\ ServiceBuilt
    /\ m_queue = << >>
    /\ pushedLog = << >>
    /\ poppedLog = << >>
    /\ nextId = 1
    /\ pc = [w \in Workers |-> "pop"]
    /\ cur = [w \in Workers |-> NoTask]

ServiceNext ==
    \/ NetworkContext
    \/ \E w \in Workers : PopLock(w)
    \/ \E w \in Workers : WaitWake(w)
    \/ \E w \in Workers : TaskStart(w)
    \/ \E w \in Workers : DbLock(w)
    \/ \E w \in Workers : DbStep(w)
    \/ \E w \in Workers : DbFault(w)
    \/ \E w \in Workers : DbReturn(w)

ServiceSpec == ServiceInit /\ [][ServiceNext]_vars

\* ------------------------------------------------------------ claims
QueuedIds == SeqToSet(Ids(m_queue))

AcceptedIds == SeqToSet(pushedLog)

\* A thread inside pop that holds, or is about to take, the lock.
AtPopLock(w) == pc[w] \in {"pop", "woken"}

\* A thread inside pop, blocked or not.
InPop(w) == pc[w] \in {"pop", "wait", "woken"}

\* C1, as the spec states it: pop reports "closed" only when the queue is
\* both closed and empty (the tasks pending at close() are served first).
C1_ClosedOnlyWhenDrained ==
    [][\A w \in Workers :
          (AtPopLock(w) /\ pc'[w] = "finished")
              => (m_closed /\ m_queue = << >>)]_vars

\* C1, amended: close() does not drain.  Once the queue is closed every pop
\* returns "closed", whether or not tasks are pending; the tasks pending at
\* close() stay in the queue and are never extracted; pop returns
\* "extracted" only on an open queue, and then the oldest pending task.
C1_CloseStopsExtraction ==
    /\ [][m_closed => m_queue' = m_queue]_vars
    /\ [][\A w \in Workers :
            /\ (AtPopLock(w) /\ pc'[w] = "finished") => m_closed
            /\ (AtPopLock(w) /\ m_closed /\ pc'[w] # pc[w])
                  => (pc'[w] = "finished" /\ m_queue' = m_queue)
            /\ (AtPopLock(w) /\ pc'[w] = "exec")
                  => /\ ~m_closed
                     /\ m_queue # << >>
                     /\ cur'[w] = Head(m_queue)
                     /\ m_queue' = Tail(m_queue)]_vars

\* Two tasks were pending when the queue was closed, and a pop issued after
\* the close has returned "closed" with both still pending.
C1_Witness ==
    /\ m_closed
    /\ Len(m_queue) = 2
    /\ \E w \in Workers : pc[w] = "finished"

C3_QueueFIFO ==
    /\ IsPrefix(poppedLog, pushedLog)
    /\ pushedLog = poppedLog \o Ids(m_queue)

\* On the open queue two consumers hold the two tasks, the older one
\* extracted first.
C3_Witness ==
    /\ ~m_closed
    /\ poppedLog = << 1, 2 >>
    /\ \E w1, w2 \in Workers :
          w1 # w2 /\ cur[w1].id = 1 /\ cur[w2].id = 2

\* C4: a push on a closed queue changes neither the pending sequence nor
\* the closed flag, wakes no thread, and the task it drops is never
\* extracted nor executed.
C4_PushAfterCloseIsNoOp ==
    /\ [][(m_closed /\ nextId' # nextId)
             => /\ m_queue' = m_queue
                /\ m_closed' = m_closed
                /\ pc' = pc
                /\ cur' = cur
                /\ pushedLog' = pushedLog
                /\ dropped' = dropped \cup {nextId}]_vars
    /\ [](dropped \cap (QueuedIds \cup SeqToSet(poppedLog) \cup invoked
                          \cup executed) = {})

\* A task was dropped by a push on the closed queue, another one was
\* executed, and every worker has left its loop.
C4_Witness ==
    /\ dropped # {}
    /\ executed # {}
    /\ \A w \in Workers : pc[w] = "finished"

\* C5: once the queue is closed, a thread that is inside pop (blocked in
\* the wait, or calling pop later) returns from it; pop then reports
\* "closed" and the worker leaves its loop.  (A task that throws ends the
\* process, and with it every thread.)
C5_CloseReleasesWaiters ==
    \A w \in Workers :
        (m_closed /\ InPop(w)) ~> (pc[w] = "finished" \/ aborted)

\* A thread that was blocked in the wait when close() was called has
\* returned from pop and left its loop.
C5_Witness ==
    /\ m_closed
    /\ \E w \in atClose.waiters : pc[w] = "finished"

\* C6: when the constructor reports that a thread could not be started, no
\* thread it had started is still running: each has left its loop and was
\* joined, m_threads is empty, and if there was one, the shutdown signal
\* was given and the queue is closed.
C6_StartupAllOrNothing ==
    poolPc = "failed"
        => /\ \A w \in Workers : pc[w] \in {"not_started", "finished"}
           /\ joined = {w \in Workers : pc[w] # "not_started"}
           /\ m_threads = << >>
           /\ joined # {} => (m_closed /\ shutdownCalls = 1)
           /\ joined = {} => shutdownCalls = 0

\* The start of the third thread failed; the two started threads were
\* joined, one of them after it had executed a task.
C6_Witness ==
    /\ poolPc = "failed"
    /\ Cardinality(joined) = 2
    /\ executed # {}

\* The tasks that were extracted and had not ended when the queue was
\* closed.
InFlightAtClose == SeqToSet(poppedLog) \ atClose.invoked

\* C7: stop() on a pool with threads closes the queue first and returns
\* only when every worker has left its loop; a task in execution when the
\* queue is closed is run to its end, the worker going back to pop; and
\* stop() returns, provided every task ends (without ending the process).
C7_StopClosesThenWaits ==
    /\ [][(stopCalls' # stopCalls /\ m_threads # << >>)
             => (m_closed' /\ poolPc' = "joining")]_vars
    /\ [][(poolPc = "joining" /\ poolPc' # "joining")
             => (\A w \in SeqToSet(m_threads) : pc'[w] = "finished")]_vars
    /\ [][\A w \in Workers :
            (m_closed /\ pc[w] = "exec" /\ pc'[w] # "exec")
                => \/ pc'[w] = "pop" /\ cur[w].id \in executed'
                   \/ pc'[w] = "crashed"]_vars
    /\ (poolPc = "joining") ~> (poolPc # "joining" \/ aborted)

\* stop() has returned, and a task that was in execution when stop() closed
\* the queue was run to its end.
C7_Witness ==
    /\ poolPc = "ready"
    /\ stopCalls = 1
    /\ m_threads = << >>
    /\ closeCalls = 0
    /\ InFlightAtClose # {}
    /\ InFlightAtClose \subseteq executed

\* C8: a stop() or the destructor that finds m_threads empty (a stop() has
\* returned before) gives no shutdown signal, joins nothing and changes
\* nothing; and a destroyed pool, stopped before or not, has given the
\* signal once, with every worker out of its loop and joined.
C8_StopIdempotent ==
    /\ [][(poolPc = "ready" /\ m_threads = << >>
             /\ (stopCalls' # stopCalls \/ poolPc' = "destroyed"))
             => /\ UNCHANGED << m_queue, m_closed, pc, cur, m_threads,
                               joined, shutdownCalls, closeCalls, via,
                               joinIdx, aborted, nextId, pushedLog,
                               poppedLog, dropped, executed, invoked,
                               respCount, atClose >>
                /\ poolPc' \in {"ready", "destroyed"}]_vars
    /\ [](poolPc = "destroyed"
             => /\ m_closed
                /\ shutdownCalls = 1
                /\ m_threads = << >>
                /\ joined = Workers
                /\ \A w \in Workers : pc[w] = "finished")

\* The pool was stopped, stopped again, and then destroyed.
C8_Witness ==
    /\ poolPc = "destroyed"
    /\ stopCalls = 2

\* C9: every invocation of an entry point that has ended has sent exactly
\* one response for its request.
C9_ExactlyOneResponse ==
    \A t \in invoked : respCount[t] = 1

\* The worker threads inside their loop.
LiveWorkers == {w \in Workers : pc[w] \in {"pop", "wait", "woken", "exec"}}

\* C10: no fault leaves an entry point: no worker is ended by a task, and
\* a constructed pool has all its workers in their loops until the queue
\* is closed.
C10_NoFaultEscapes ==
    /\ ~aborted
    /\ \A w \in Workers : pc[w] # "crashed"
    /\ (poolPc = "ready" /\ ~m_closed)
          => Cardinality(LiveWorkers) = thread_count

\* The fault kind of a request, by the first fault its handling meets: the
\* create envelope (media type, then the "file" part), the decoding of the
\* payload on the routes that have one, the storage operation, the
\* unknown identity on the routes that name one, the serialization of the
\* answer.
FaultKind(route, env) ==
    LET envelope == route = "create"
                      /\ env.ct \notin {"application/json",
                                        "multipart/form-data"}
        no_file  == route = "create" /\ env.ct = "multipart/form-data"
                      /\ env.upload = "none"
        decode   == route \in {"create", "patch"} /\ env.body = "malformed"
        miss     == route \in {"get_one", "patch", "delete"}
                      /\ env.db = "miss"
        before   == IF envelope THEN "envelope"
                    ELSE IF env.unexpected THEN "other"
                    ELSE IF no_file THEN "envelope"
                    ELSE IF decode THEN "decode"
                    ELSE IF env.db = "fault" THEN "storage"
                    ELSE IF miss THEN "miss"
                    ELSE "success"
    IN  IF before = "success"
        THEN IF env.ser_result_fault THEN "other" ELSE "success"
        ELSE IF env.ser_failure_fault THEN "other" ELSE before

\* The status and the error code the claim gives each fault kind.
Classified(kind) ==
    CASE kind = "success"  -> Responds(200, 0)
      [] kind = "decode"   -> Responds(400, 1)
      [] kind = "storage"  -> Responds(500, 2)
      [] kind = "miss"     -> Responds(404, 3)
      [] kind = "envelope" -> Responds(400, 4)
      [] kind = "other"    -> Responds(500, -1)

\* C11: on every route the request is answered with the status and the
\* error code of its fault kind: success 200, decode fault 400 and code 1,
\* storage fault 500 and code 2, unknown identity 404 and code 3,
\* malformed create envelope 400 and code 4, any other fault 500 and
\* code -1.
C11_FixedClassification ==
    trial.ended
        => trial.result = Classified(FaultKind(trial.route, trial.env))

\* What holds of the code: a request that is answered is answered with the
\* status and the code of its fault kind.
C11_AnsweredAsClassified ==
    (trial.ended /\ ~trial.result.escaped)
        => trial.result = Classified(FaultKind(trial.route, trial.env))

\* The requests that are not answered are those whose failure description
\* could not be serialized.
C11_UnansweredOnlySerFailure ==
    (trial.ended /\ trial.result.escaped)
        => /\ trial.env.ser_failure_fault
           /\ FaultKind(trial.route, trial.env) = "other"

\* A create request whose envelope is malformed: the Content-Type is
\* absent, unparsable or another media type, or the multipart body has no
\* non-empty part named "file" (and nothing else failed before the parts
\* were looked at).
RejectedCreate(route, env) ==
    /\ route = "create"
    /\ \/ env.ct \notin {"application/json", "multipart/form-data"}
       \/ /\ env.ct = "multipart/form-data"
          /\ env.upload = "none"
          /\ ~env.unexpected

\* C12: a create request with application/json is handled as a single
\* create, one with multipart/form-data as a batch create of the part
\* named "file"; a create request with a malformed envelope is answered
\* 400 with error code 4 and no operation of db_layer_t is called for it.
C12_CreateNegotiation ==
    (trial.ended /\ trial.route = "create")
        => /\ trial.env.ct = "application/json"
                 => GatewayCall(trial.route, trial.env)
                        \in {"create_new_pet", "none"}
           /\ trial.env.ct = "multipart/form-data"
                 => GatewayCall(trial.route, trial.env)
                        \in {"create_bunch_of_pets", "none"}
           /\ RejectedCreate(trial.route, trial.env)
                 => /\ GatewayCall(trial.route, trial.env) = "none"
                    /\ trial.result = Responds(400, 4)

\* What holds of the code: the same, for the rejected requests that are
\* answered; the others are those whose failure description could not be
\* serialized.
C12_RejectedIfAnswered ==
    (trial.ended /\ trial.route = "create")
        => /\ trial.env.ct = "application/json"
                 => GatewayCall(trial.route, trial.env)
                        \in {"create_new_pet", "none"}
           /\ trial.env.ct = "multipart/form-data"
                 => GatewayCall(trial.route, trial.env)
                        \in {"create_bunch_of_pets", "none"}
           /\ RejectedCreate(trial.route, trial.env)
                 => /\ GatewayCall(trial.route, trial.env) = "none"
                    /\ IF trial.env.ser_failure_fault
                       THEN trial.result = Escapes
                       ELSE trial.result = Responds(400, 4)

\* The row of table pets that holds payload pet under identity id.
RowOf(id, pet) ==
    [id |-> id, name |-> pet.m_name, type |-> pet.m_type,
     owner |-> pet.m_owner, picture |-> pet.m_picture]

\* The record with identity id and the fields of payload pet.
RecordOf(id, pet) == [m_id |-> id, m_data |-> pet]

\* The call of operation op by worker w ends in this step.
Ends(w, op) == call[w].op = op /\ pc[w] = "db_in" /\ pc'[w] # "db_in"

\* C13: create_bunch_of_pets of N payloads either inserts the N records
\* and returns N identities, the i-th being that of the i-th payload, or,
\* when an insert or the commit fails, returns no identity, ends in the
\* storage fault and leaves the table as it was before the call, the
\* rows inserted before the failure removed.
C13_BatchAtomic ==
    [][\A w \in Workers :
         Ends(w, "create_bunch_of_pets")
            => LET c == call[w]
                   N == Len(c.pets)
               IN  IF done'.out = "ok"
                   THEN /\ Len(c.ids) = N
                        /\ \A i, j \in 1..N : i < j => c.ids[i] < c.ids[j]
                        /\ \A i \in 1..N :
                              c.ids[i] \notin {r.id : r \in trx.pets}
                        /\ pets' = trx.pets \cup
                              {RowOf(c.ids[i], c.pets[i]) : i \in 1..N}
                        /\ told' = told \cup
                              {RecordOf(c.ids[i], c.pets[i]) : i \in 1..N}
                   ELSE /\ done'.out = "fault"
                        /\ pets' = trx.pets
                        /\ told' = told
                        /\ lastCreated' = lastCreated]_vars

\* A batch has failed after an insert: the failed call is the last one
\* ended, and the connection's last_insert_rowid() is that of a row the
\* table does not hold.
C13_Witness ==
    /\ done = [op |-> "create_bunch_of_pets", out |-> "fault"]
    /\ last_insert_rowid > sqlite_sequence
    /\ last_insert_rowid \notin {r.id : r \in pets}

\* C14: create_new_pet of payload P returns an identity that no record
\* had before, under which the record of P is kept from then on; and a
\* get_pet returns the record last written under the identity it asks
\* for, so that get_pet of the identity create_new_pet returned, with no
\* update or delete of it in between, returns that identity with the
\* four fields of P.
C14_RoundTrip ==
    /\ [][\A w \in Workers :
            (Ends(w, "create_new_pet") /\ done'.out = "ok")
               => /\ lastCreated' \notin {t.m_id : t \in told}
                  /\ told' = told \cup
                        {RecordOf(lastCreated', call[w].pets[1])}]_vars
    /\ [](\A w \in Workers :
            (call[w].op = "get_pet" /\ call[w].k = 1)
               => call[w].got = {t \in told : t.m_id = call[w].id})

\* get_pet has read the record of the identity that the last create of
\* this run returned, with the fields of the payload.
C14_Witness ==
    \E w \in Workers, p \in Payloads :
        /\ done = [op |-> "create_new_pet", out |-> "ok"]
        /\ call[w].op = "get_pet"
        /\ call[w].k = 1
        /\ call[w].id = lastCreated
        /\ call[w].got = {RecordOf(lastCreated, p)}

\* C15: no two rows of the table share an identity, and every identity a
\* create returns is greater than every identity a create returned
\* before, in this run or in an earlier one, whatever was deleted since.
C15_IdentitiesIncrease ==
    /\ [](\A r1, r2 \in pets : r1.id = r2.id => r1 = r2)
    /\ [](\A t1, t2 \in told : t1.m_id = t2.m_id => t1 = t2)
    /\ [][\A w \in Workers :
            /\ (Ends(w, "create_new_pet") /\ done'.out = "ok")
                  => /\ last_insert_rowid > lastCreated
                     /\ lastCreated' = last_insert_rowid
            /\ (Ends(w, "create_bunch_of_pets") /\ done'.out = "ok")
                  => LET ids == call[w].ids IN
                     /\ \A i \in 1..Len(ids) : ids[i] > lastCreated
                     /\ \A i, j \in 1..Len(ids) : i < j => ids[i] < ids[j]
                     /\ lastCreated' = MaxOf({lastCreated}
                                          \cup {ids[i] : i \in 1..Len(ids)})
           ]_vars

\* The only row of the table was deleted, and the create that came next
\* has inserted its row under an identity greater than the deleted one.
C15_Witness ==
    \E w \in Workers :
        /\ done = [op |-> "delete_pet", out |-> "ok"]
        /\ call[w].op = "create_new_pet"
        /\ call[w].k = 1
        /\ pets = {RowOf(3, call[w].pets[1])}
        /\ lastCreated = 2

\* The records the rows of the table stand for.
Records(rows) ==
    {RecordOf(r.id, [m_name |-> r.name, m_type |-> r.type,
                     m_owner |-> r.owner, m_picture |-> r.picture]) :
        r \in rows}

\* C16: update_pet of an identity that no record of the store has returns
\* not_found, a value and not an exception, and leaves the table with the
\* records it had, none added and none changed (as it does when the
\* statement fails).
C16_UpdateUnknown ==
    [][\A w \in Workers :
         (Ends(w, "update_pet")
             /\ call[w].id \notin {t.m_id : t \in told})
            => /\ done'.out \in {"miss", "fault"}
               /\ told' = told
               /\ Records(pets') = told]_vars

\* An update of an identity the table never had has returned not_found,
\* and the table holds the pet it held.
C16_Witness ==
    /\ done = [op |-> "update_pet", out |-> "miss"]
    /\ pets = {RowOf(2, PetB)}
    /\ told = {RecordOf(2, PetB)}
    /\ executed # {}


\* C17: delete_pet returns deleted exactly when a record with the identity
\* was in the table; it then removes that record and no other, and
\* returns not_found, leaving the table as it was, when there was none. A
\* second delete of the same identity therefore returns not_found.
C17_DeleteOutcomes ==
    [][\A w \in Workers :
         (Ends(w, "delete_pet") /\ done'.out # "fault")
            => LET id == call[w].id
                   had == {t \in told : t.m_id = id}
               IN  /\ done'.out = (IF had # {} THEN "ok" ELSE "miss")
                   /\ told' = told \ had
                   /\ Records(pets') = told \ had]_vars


\* The one record of the table has been deleted, and a second delete of
\* the same identity has run its statement, which changed no row.
C17_Witness ==
    \E w \in Workers :
        /\ done = [op |-> "delete_pet", out |-> "ok"]
        /\ told = {} /\ pets = {} /\ sqlite_sequence = 2
        /\ call[w].op = "delete_pet" /\ call[w].id = 2
        /\ call[w].k = 1 /\ call[w].changes = 0


\* The workers that are inside an operation of db_layer_t.
Inside == {w \in Workers : pc[w] = "db_in"}

\* C18: at most one worker is inside an operation of db_layer_t at any
\* time, and it is the one that holds m_lock; the table and its sequence
\* change only in a step of that worker; and from the begin of the
\* transaction of create_bunch_of_pets to its commit or rollback no other
\* worker enters an operation.
C18_MutualExclusion ==
    /\ [](/\ Cardinality(Inside) <= 1
          /\ \A w \in Workers : (w \in Inside) <=> (m_lock = w)
          /\ trx.open => \E w \in Inside :
                            call[w].op = "create_bunch_of_pets")
    /\ [][/\ (<< pets, sqlite_sequence, last_insert_rowid >>'
                 # << pets, sqlite_sequence, last_insert_rowid >>)
               => (Inside # {} /\ m_lock \in Inside)
          /\ (trx.open /\ Inside' # {}) => Inside' = Inside]_vars

\* A worker is inside the transaction of a batch, one pet inserted and one
\* to go, while another worker has called an operation and waits for
\* m_lock.
C18_Witness ==
    \E w1, w2 \in Workers :
        /\ w1 # w2
        /\ m_lock = w1 /\ trx.open
        /\ call[w1].op = "create_bunch_of_pets"
        /\ call[w1].k = 1 /\ Len(call[w1].pets) = 2
        /\ pc[w2] = "db_call" /\ call[w2].op = "get_all_pets"


\* The step in which worker w, inside the read op, runs its select.
Reads(w, op) ==
    /\ pc[w] = "db_in" /\ call[w].op = op
    /\ call[w].k = 0 /\ call'[w].k = 1

\* C19: whenever no worker holds m_lock the table holds exactly the
\* records that the writes returned so far have left, in the order they
\* took the lock; the select of get_all_pets, on whatever worker, reads
\* all of these records and the select of get_pet the one with its
\* identity, or nothing when the last write to that identity deleted it;
\* and the call returns what its select read.
C19_ReadYourWrites ==
    /\ []((m_lock = 0) => Records(pets) = told)
    /\ [][\A w \in Workers :
            /\ Reads(w, "get_all_pets") => call'[w].got = told
            /\ Reads(w, "get_pet")
                  => call'[w].got = {t \in told : t.m_id = call[w].id}
            /\ (Ends(w, "get_all_pets") /\ done'.out # "fault")
                  => (done'.out = "ok" /\ told' = told)
            /\ (Ends(w, "get_pet") /\ done'.out # "fault")
                  => (/\ done'.out = (IF call[w].got # {} THEN "ok"
                                                          ELSE "miss")
                      /\ told' = told)]_vars

\* An update of pet 2 has returned on one worker, and get_all_pets on
\* another worker has then read pet 2 with the new fields.
C19_Witness ==
    \E w \in Workers :
        /\ done = [op |-> "update_pet", out |-> "ok"]
        /\ cur[w].id = 2
        /\ call[w].op = "get_all_pets" /\ call[w].k = 1
        /\ call[w].got = {RecordOf(2, PetA)}


\* The pushes the network context has made: the tasks the queue took and
\* the tasks it dropped.
Pushes == Len(pushedLog) + Cardinality(dropped)

\* The handler of a request runs in this step.
Handles == nextId' # nextId

\* The tasks a worker has popped.
PoppedIds == {poppedLog[i] : i \in 1..Len(poppedLog)}

\* Worker w runs a task that it popped from the queue.
RunsPoppedTask(w) ==
    /\ \E i \in 1..Len(m_threads) : m_threads[i] = w
    /\ cur[w] # NoTask
    /\ cur[w].id \in PoppedIds

\* The handler of a request calls no entry point and no operation of
\* db_layer_t and waits for nothing: its step changes neither the store
\* nor a call nor a response, and it makes at most one push.  The store
\* changes only in a step of a worker that is inside an operation, and a
\* worker calls an operation only in a task it popped.
C20_StoreLeftToWorkers ==
    /\ [][Handles => /\ Pushes' \in {Pushes, Pushes + 1}
                     /\ UNCHANGED << gatewayVars, taskHist, cur >>]_vars
    /\ [][(<< pets, sqlite_sequence, last_insert_rowid >>'
             # << pets, sqlite_sequence, last_insert_rowid >>)
            => \E w \in Workers : pc[w] = "db_in" /\ RunsPoppedTask(w)]_vars
    /\ [](\A w \in Workers :
            (pc[w] \in {"db_call", "db_in"} \/ call[w].op # "none")
               => RunsPoppedTask(w))

\* C20: the handler of each of the five routes makes exactly one push and
\* returns request_accepted, calls neither the processor nor db_layer_t,
\* so no step of the network context changes the store, and every
\* operation of db_layer_t is run by a worker of the pool.
C20_NetworkNeverTouchesStorage ==
    /\ C20_StoreLeftToWorkers
    /\ [][Handles => Pushes' = Pushes + 1]_vars

\* The network context has pushed the task of a request and a worker that
\* popped it has inserted a pet.
C20_Witness ==
    \E w \in Workers :
        /\ Pushes = 1 /\ nextId = 2
        /\ RunsPoppedTask(w)
        /\ pc[w] = "db_in" /\ call[w].op = "create_new_pet"
        /\ call[w].k = 1 /\ Cardinality(pets) = 2

\* A request whose id no pet_id_t holds was handled, and nothing was
\* pushed.
C20_NothingPushed == nextId = 2 /\ Pushes = 0


\* close() is called in this step, by a client or by the shutdowner of
\* the pool.
CloseCalled ==
    closeCalls' # closeCalls \/ shutdownCalls' # shutdownCalls

\* C21: a close() on a queue that is closed already changes nothing: the
\* flag stays set, the pending tasks, the threads inside pop and the tasks
\* they hold stay as they are, so every later push and pop ends as it
\* would have ended without that call.
C21_CloseIdempotent ==
    [][(CloseCalled /\ m_closed)
         => /\ m_closed'
            /\ UNCHANGED << m_queue, pc, cur, atClose, pushedLog, dropped >>
            /\ PopOutcome(m_closed', m_queue') = PopOutcome(m_closed, m_queue)
            /\ PushAccepts(m_closed') = PushAccepts(m_closed)]_vars

\* close() was called twice, by a client and by the shutdowner of the
\* pool, on a queue with a pending task.
C21_Witness ==
    /\ closeCalls = 1 /\ shutdownCalls = 1
    /\ m_closed /\ m_queue # << >>


\* C22: once m_closed is true no step of the queue, of the pool or of a
\* worker makes it false again, and no step makes the pending sequence
\* longer.
C22_ClosedMonotonic ==
    [][m_closed => /\ m_closed'
                   /\ Len(m_queue') <= Len(m_queue)
                   /\ IsPrefix(m_queue', m_queue)]_vars

\* The queue was closed with a task pending, a push came after that, and
\* the pool has joined all its threads: the one task is still pending.
C22_Witness ==
    /\ m_closed /\ Len(m_queue) = 1 /\ dropped # {}
    /\ joined = Workers


\* The state of the worker loop a thread is in, by where it is: inside
\* pop, inside msg.m_task(), or past the break.  A thread that was not
\* started, or that an exception has left, is in none of them.
LoopState(at) ==
    CASE at \in {"pop", "wait", "woken"} -> "WaitingForTask"
      [] at \in {"exec", "db_call", "db_in"} -> "Executing"
      [] at = "finished" -> "Stopped"
      [] OTHER -> "none"

\* The changes of loop state the worker loop allows to worker w in a
\* step: pop extracts a task, the task returns, pop reports closed.
LoopTransition(w) ==
    LET from == LoopState(pc[w])
        to == LoopState(pc'[w])
    IN  \/ from = to
        \/ /\ from = "WaitingForTask" /\ to = "Executing"
           /\ m_queue # << >> /\ cur'[w] = Head(m_queue)
        \/ /\ from = "Executing" /\ to = "WaitingForTask"
           /\ cur[w].id \in executed'
        \/ /\ from = "WaitingForTask" /\ to = "Stopped"
           /\ m_closed

\* While no exception leaves a task, every started worker is in one of
\* the three states of the loop and changes state only as the loop allows;
\* a stopped worker stays stopped.
C23_WhileTasksReturn ==
    /\ [](\A w \in Workers :
            pc[w] \notin {"not_started", "crashed"}
               => LoopState(pc[w]) # "none")
    /\ [][\A w \in Workers :
            (pc[w] # "not_started" /\ pc'[w] # "crashed")
               => LoopTransition(w)]_vars

\* C23: every started worker is always in exactly one of WaitingForTask,
\* Executing and Stopped; it goes from WaitingForTask to Executing when pop
\* extracts a task, from Executing to WaitingForTask when the task
\* returns, from WaitingForTask to Stopped when pop reports closed, and
\* makes no other change: it never leaves Stopped and never leaves
\* Executing but to wait for the next task.
C23_WorkerStateMachine ==
    /\ [](\A w \in Workers :
            pc[w] # "not_started" => LoopState(pc[w]) # "none")
    /\ [][\A w \in Workers :
            pc[w] # "not_started" => LoopTransition(w)]_vars

\* A task has returned to the loop, the queue was closed, one worker has
\* left the loop and another is still executing.
C23_Witness ==
    \E w1, w2 \in Workers :
        /\ LoopState(pc[w1]) = "Stopped"
        /\ LoopState(pc[w2]) = "Executing"
        /\ executed # {} /\ m_closed


\* A push that takes effect happens in this step.
PushTakesEffect == pushedLog' # pushedLog

\* The threads a step wakes from the wait of pop.
WokenBy == {w \in Workers : pc[w] = "wait" /\ pc'[w] = "woken"}

\* A push on the open queue wakes one of the threads blocked in pop when
\* the queue was empty before it, if there is one to wake, and none when
\* a task was pending already; it moves no other thread.
C24_PushWakesOneIfEmpty ==
    [][PushTakesEffect
         => /\ ~m_closed
            /\ Cardinality(WokenBy) =
                  (IF m_queue = << >> /\ Waiters(pc) # {} THEN 1 ELSE 0)
            /\ \A w \in Workers \ WokenBy : pc'[w] = pc[w]]_vars

\* With a task pending on the open queue and a thread blocked in pop, some
\* thread is on its way to the queue: it was notified, or it is calling
\* pop.
SomeoneComes ==
    (~m_closed /\ m_queue # << >> /\ Waiters(pc) # {})
       => \E w \in Workers : pc[w] \in {"pop", "woken"}

\* C24: push wakes exactly one blocked thread when the queue was empty
\* and none otherwise, and with this rule no thread stays blocked in pop
\* while the open queue holds a task: of two blocked threads and two tasks
\* pushed back to back, the second thread takes the second task without
\* waiting for the first thread to end the first task.
C24_BlockedOnlyWhileEmpty ==
    /\ C24_PushWakesOneIfEmpty
    /\ []SomeoneComes

\* Two threads were blocked in pop and two tasks were pushed back to back:
\* the first push has woken one of them, the second has woken none.
C24_Witness ==
    \E w1, w2 \in Workers :
        /\ pc[w1] = "woken" /\ pc[w2] = "wait"
        /\ ~m_closed /\ Len(m_queue) = 2

\* The thread the first push woke executes the first task; the second
\* task is pending on the open queue, every other thread of the pool is
\* still blocked and none is on its way.
C24_LostWakeup ==
    \E w1, w2 \in Workers :
        /\ pc[w1] = "exec" /\ cur[w1].id = 1
        /\ pc[w2] = "wait"
        /\ ~m_closed /\ Ids(m_queue) = << 2 >>
        /\ poolPc = "ready"
        /\ \A w \in Workers \ {w1} : pc[w] = "wait"


\* The identities of a set of records.
IdsOf(records) == {t.m_id : t \in records}

\* C25: update_pet of an identity that a record of the table has returns
\* updated; the record then has the four fields of the payload and the
\* identity it had, and every other record, and with it the set of
\* identities in the table, is as it was.
C25_UpdateReplaces ==
    [][\A w \in Workers :
         (Ends(w, "update_pet") /\ done'.out # "fault"
             /\ call[w].id \in IdsOf(told))
            => LET id == call[w].id
                   new == RecordOf(id, call[w].pets[1])
               IN  /\ done'.out = "ok"
                   /\ told' = {t \in told : t.m_id # id} \cup {new}
                   /\ Records(pets') = told'
                   /\ IdsOf(Records(pets')) = IdsOf(told)
                   /\ Cardinality(pets') = Cardinality(told)]_vars

\* Pet 3 was created with the fields of one payload and pet 2 then
\* updated to the fields of the other: pet 3 is as it was created.
C25_Witness ==
    /\ done = [op |-> "update_pet", out |-> "ok"]
    /\ told = {RecordOf(2, PetA), RecordOf(3, PetB)}
    /\ pets = {RowOf(2, PetA), RowOf(3, PetB)}


\* The identities that were deleted: a create returned them, in this run
\* or in an earlier one, and no record has them.
Gone == (1..lastCreated) \ IdsOf(told)

\* The operations that name one identity.
IdOps == {"get_pet", "update_pet", "delete_pet"}

\* What the entry point of op answers when the operation finds no record
\* of the identity: status and error code, or nothing at all when the
\* serialization of the failure description throws.
AnswerWhenMissing(op, ser_failure_fault) ==
    TaskBody(RouteOf(op), FactsAt(op, "miss", FALSE, ser_failure_fault))

\* Worker w ends an operation on a deleted identity, and not with a
\* storage fault.
EndsOnGone(w, op) ==
    /\ Ends(w, op)
    /\ call[w].id \in Gone
    /\ done'.out # "fault"

\* A deleted identity stays deleted, whatever is created later, and a
\* later get_pet finds nothing, update_pet and delete_pet change no row;
\* the request is then answered 404 with error code 3, unless the
\* serialization of that answer throws and the request is not answered.
C26_GoneForStorage ==
    /\ [][Gone \subseteq Gone']_vars
    /\ [][\A w \in Workers : \A op \in IdOps :
            EndsOnGone(w, op)
               => /\ done'.out = "miss"
                  /\ told' = told
                  /\ IF aborted'
                     THEN AnswerWhenMissing(op, TRUE) = Escapes
                     ELSE respCount'[cur[w].id] = respCount[cur[w].id] + 1
                  /\ AnswerWhenMissing(op, FALSE)
                        = Responds(status_not_found, invalid_pet_id)]_vars

\* C26: once an identity was deleted, every later GET, PATCH or DELETE of
\* it is answered 404 with error code 3, whatever was created in between.
C26_DeletedStaysGone ==
    /\ [][Gone \subseteq Gone']_vars
    /\ [][\A w \in Workers : \A op \in IdOps :
            EndsOnGone(w, op)
               => /\ done'.out = "miss"
                  /\ ~aborted'
                  /\ respCount'[cur[w].id] = respCount[cur[w].id] + 1
                  /\ \A f \in BOOLEAN :
                        AnswerWhenMissing(op, f)
                           = Responds(status_not_found, invalid_pet_id)]_vars

\* Pet 2 was deleted and its DELETE answered, and a later GET of pet 2 has
\* found nothing.
C26_Witness ==
    \E w \in Workers :
        /\ done = [op |-> "delete_pet", out |-> "ok"]
        /\ respCount[1] = 1 /\ executed = {1}
        /\ 2 \in Gone
        /\ call[w].op = "get_pet" /\ call[w].id = 2
        /\ call[w].k = 1 /\ call[w].got = {}


\* The workers that hold an extracted task.
Holders(id) == {w \in Workers : cur[w].id = id}

\* C27: a task that pop has extracted is out of the queue: it is never
\* extracted a second time, no two workers hold it, and a worker runs the
\* entry point of a task that has not been run before, once.
C27_AtMostOnce ==
    /\ [](\A i, j \in 1..Len(poppedLog) :
            poppedLog[i] = poppedLog[j] => i = j)
    /\ [](\A id \in TaskIds :
            /\ Cardinality(Holders(id)) <= 1
            /\ Holders(id) # {} => id \notin QueuedIds \cup executed)
    /\ [][\A w \in Workers :
            (pc[w] = "exec" /\ pc'[w] # "exec")
               => /\ cur[w].id \notin invoked
                  /\ invoked' = invoked \cup {cur[w].id}
                  /\ cur'[w] # cur[w] \/ aborted']_vars

\* Two workers popped at the same time with two tasks pending: each holds
\* a task of its own, and a third worker waits on the empty queue.
C27_Witness ==
    \E w1, w2, w3 \in Workers :
        /\ pc[w1] = "exec" /\ cur[w1].id = 1
        /\ pc[w2] = "exec" /\ cur[w2].id = 2
        /\ pc[w3] = "wait" /\ m_queue = << >>


\* Worker w is inside create_new_pet, between its insert and its return.
HasInserted(w) ==
    /\ pc[w] = "db_in"
    /\ call[w].op = "create_new_pet"
    /\ call[w].k = 1

\* C28: between the insert of a create_new_pet and its return no other
\* call inserts or moves last_insert_rowid, so the identity the call
\* returns is that of the row it inserted, with its payload; the same
\* holds for each pet of a batch; and no create returns an identity that
\* a create has returned before.
C28_OwnIdentity ==
    /\ [][\A w \in Workers :
            (HasInserted(w) /\ pc'[w] = "db_in")
               => UNCHANGED << pets, sqlite_sequence, last_insert_rowid >>
          ]_vars
    /\ [](\A w \in Workers :
            HasInserted(w)
               => /\ RowOf(last_insert_rowid, call[w].pets[1]) \in pets
                  /\ \A r \in pets : r.id <= last_insert_rowid
                  /\ last_insert_rowid \notin 1..lastCreated)
    /\ [][\A w \in Workers :
            /\ (Ends(w, "create_new_pet") /\ done'.out = "ok")
                  => /\ lastCreated' = last_insert_rowid
                     /\ RowOf(lastCreated', call[w].pets[1]) \in pets'
                     /\ lastCreated' \notin 1..lastCreated
            /\ (Ends(w, "create_bunch_of_pets") /\ done'.out = "ok")
                  => LET ids == call[w].ids IN
                     /\ Len(ids) = Len(call[w].pets)
                     /\ \A i \in 1..Len(ids) :
                           /\ RowOf(ids[i], call[w].pets[i]) \in pets'
                           /\ ids[i] \notin 1..lastCreated
                     /\ \A i, j \in 1..Len(ids) :
                           ids[i] = ids[j] => i = j]_vars

\* A worker has inserted its pet and not yet returned, while another
\* worker has called create_new_pet and waits for m_lock.
C28_Witness ==
    \E w1, w2 \in Workers :
        /\ w1 # w2
        /\ HasInserted(w1)
        /\ pc[w2] = "db_call" /\ call[w2].op = "create_new_pet"
        /\ last_insert_rowid = lastCreated + 1

=============================================================================
